---- MODULE Spec2Model ----
(***************************************************************************)
(* DexGraspVLAPlanner.request_task (planner/dexgraspvla_planner.py) as a   *)
(* state machine: prompt selection, conversation construction, the single  *)
(* chat-completion request, and the per-task decoding of the raw response. *)
(*                                                                         *)
(* Text is a sequence of symbols.  A symbol is one character ("T", "r",    *)
(* "[", "1", ...) or an atom that abbreviates a run of characters holding  *)
(* none of the words searched for ("target", "label", the prompt           *)
(* templates).  Python values are records [t |-> type, v |-> payload].     *)
(***************************************************************************)
EXTENDS Integers, Sequences, FiniteSets, TLC

VARIABLES
    self_model,    \* self.model, fixed by __init__
    pc,            \* position of the current request_task call
    task_name,     \* argument task_name
    frame_path,    \* argument frame_path (a Python value: None or a str)
    instruction,   \* argument instruction (a Python value: None or a str)
    max_token,     \* argument max_token
    messages,      \* local `messages` (<<>> while not built)
    request,       \* what the last completions.create call was handed
    creates,       \* completions.create calls issued by the current call
    attempts,      \* connection attempts of the transport for this request
    response,      \* local `response` (text; <<>> while none)
    decodes,       \* times the decoding block ran in the current call
    result,        \* value returned by the call (a Python value)
    error,         \* exception the call ended with
    memo           \* one earlier call that decoded a response, kept by an observer

vars == <<self_model, pc, task_name, frame_path, instruction, max_token,
          messages, request, creates, attempts, response, decodes, result,
          error, memo>>

(***************************************************************************)
(* Bounds of the model.                                                    *)
(***************************************************************************)
\* a raw response is the concatenation of at most MaxChunks chunks
MaxChunks == 2
\* raw responses of the comparison specification: at most MemoChunks chunks
MemoChunks == 1

(***************************************************************************)
(* Program constants.                                                      *)
(***************************************************************************)
\* httpx.HTTPTransport(retries=1)
HTTP_RETRIES == 1
\* default of max_token
DEFAULT_MAX_TOKEN == 218

(***************************************************************************)
(* Python values.                                                          *)
(***************************************************************************)
PyNone == [t |-> "none", v |-> 0]
PyStr(s) == [t |-> "str", v |-> s]
PyInt(n) == [t |-> "int", v |-> n]
PyBool(b) == [t |-> "bool", v |-> b]
PyList(xs) == [t |-> "list", v |-> xs]
PyDict(f) == [t |-> "dict", v |-> f]
NoValue == [t |-> "unset", v |-> 0]
NoError == [kind |-> "none", prefix |-> "", arg |-> NoValue, suffix |-> ""]

(***************************************************************************)
(* str.lower() and the `in` operator on str.                               *)
(***************************************************************************)
LowerChar(c) ==
    CASE c = "T" -> "t" [] c = "R" -> "r" [] c = "U" -> "u" [] c = "E" -> "e"
      [] c = "F" -> "f" [] c = "A" -> "a" [] c = "L" -> "l" [] c = "S" -> "s"
      [] OTHER -> c

Lower(s) == [i \in 1..Len(s) |-> LowerChar(s[i])]

\* needle in hay
StrIn(needle, hay) ==
    \E i \in 1..(Len(hay) - Len(needle) + 1) :
        SubSeq(hay, i, i + Len(needle) - 1) = needle

TRUE_WORD == <<"t", "r", "u", "e">>
FALSE_WORD == <<"f", "a", "l", "s", "e">>

(***************************************************************************)
(* The text-to-structure primitives of planner.utils and json_repair.      *)
(* Their code is not part of the sources at hand; they are modelled from   *)
(* their contracts: a literal parser over quoted strings, one-digit        *)
(* numbers, bracketed lists and braced objects.                            *)
(***************************************************************************)
Digits == {"1", "2", "3", "4"}
DigitValue(c) == CASE c = "1" -> 1 [] c = "2" -> 2 [] c = "3" -> 3 [] OTHER -> 4

ParseFail == [ok |-> FALSE, val |-> NoValue, rest |-> <<>>]
ParseOk(val, rest) == [ok |-> TRUE, val |-> val, rest |-> rest]

\* index of the first occurrence of a symbol of cs in s at or after i, else 0
RECURSIVE FirstOf(_, _, _)
FirstOf(s, cs, i) ==
    IF i > Len(s) THEN 0
    ELSE IF s[i] \in cs THEN i
    ELSE FirstOf(s, cs, i + 1)

\* index of the last occurrence of a symbol of cs in s at or before i, else 0
RECURSIVE LastOf(_, _, _)
LastOf(s, cs, i) ==
    IF i < 1 THEN 0
    ELSE IF s[i] \in cs THEN i
    ELSE LastOf(s, cs, i - 1)

RECURSIVE ParseValue(_)
RECURSIVE ParseItems(_, _)
RECURSIVE ParseMembers(_, _)

ParseValue(s) ==
    IF s = <<>> THEN ParseFail
    ELSE IF Head(s) = "\"" THEN
        LET j == FirstOf(s, {"\""}, 2) IN
        IF j = 0 THEN ParseFail
        ELSE ParseOk(PyStr(SubSeq(s, 2, j - 1)), SubSeq(s, j + 1, Len(s)))
    ELSE IF Head(s) \in Digits THEN ParseOk(PyInt(DigitValue(Head(s))), Tail(s))
    ELSE IF Head(s) = "[" THEN ParseItems(Tail(s), <<>>)
    ELSE IF Head(s) = "{" THEN ParseMembers(Tail(s), <<>>)
    ELSE ParseFail

ParseItems(s, acc) ==
    IF s = <<>> THEN ParseFail
    ELSE IF Head(s) = "]" THEN ParseOk(PyList(acc), Tail(s))
    ELSE
        LET r == ParseValue(s) IN
        IF ~r.ok \/ r.rest = <<>> THEN ParseFail
        ELSE IF Head(r.rest) = "," THEN ParseItems(Tail(r.rest), Append(acc, r.val))
        ELSE IF Head(r.rest) = "]" THEN ParseOk(PyList(Append(acc, r.val)), Tail(r.rest))
        ELSE ParseFail

ParseMembers(s, d) ==
    IF s = <<>> THEN ParseFail
    ELSE IF Head(s) = "}" THEN ParseOk(PyDict(d), Tail(s))
    ELSE
        LET k == ParseValue(s) IN
        IF ~k.ok \/ k.val.t # "str" \/ k.rest = <<>> \/ Head(k.rest) # ":" THEN ParseFail
        ELSE
            LET r == ParseValue(Tail(k.rest)) IN
            IF ~r.ok \/ r.rest = <<>> THEN ParseFail
            ELSE
                LET d2 == (k.val.v :> r.val) @@ d IN
                IF Head(r.rest) = "," THEN ParseMembers(Tail(r.rest), d2)
                ELSE IF Head(r.rest) = "}" THEN ParseOk(PyDict(d2), Tail(r.rest))
                ELSE ParseFail

\* planner.utils.extract_list: the first bracketed list literal of the text,
\* parsed; None when the text holds no valid list literal
extract_list(text) ==
    LET i == FirstOf(text, {"["}, 1) IN
    IF i = 0 THEN PyNone
    ELSE LET r == ParseValue(SubSeq(text, i, Len(text))) IN
         IF r.ok THEN r.val ELSE PyNone

\* planner.utils.parse_json: the JSON object/array substring of the text (from
\* its first opening to its last closing bracket), as text; the text itself
\* when it holds none
parse_json(text) ==
    LET i == FirstOf(text, {"{", "["}, 1)
        j == LastOf(text, {"}", "]"}, Len(text)) IN
    IF i = 0 \/ j < i THEN text ELSE SubSeq(text, i, j)

\* json_repair.loads: the parsed value of a JSON-like text; fails on text
\* that is unsalvageable
json_repair_loads(text) ==
    LET r == ParseValue(text) IN
    IF r.ok THEN [ok |-> TRUE, val |-> r.val]
    ELSE [ok |-> FALSE, val |-> NoValue]

(***************************************************************************)
(* Inputs.                                                                 *)
(***************************************************************************)
TaskNames == {"classify_user_prompt", "decompose_user_prompt",
              "generate_instruction", "mark_bounding_box",
              "check_grasp_success", "check_instruction_complete",
              "check_user_prompt_complete"}
\* task_name is any str: the seven names and one that is none of them
TaskInputs == TaskNames \cup {"Classify_User_Prompt"}
FrameInputs == {PyNone, PyStr(<<"frame.jpg">>)}
InstructionInputs == {PyNone, PyStr(<<"green cup">>)}
MaxTokenInputs == {DEFAULT_MAX_TOKEN, 1}
SERVED_MODEL == "served-model"

\* a double quote; ~~~ stands for the markdown code fence
Q == "\""
Fenced(s) == <<"~~~json">> \o s \o <<"~~~">>
Chunks ==
    { <<"T", "r", "u", "e">>,
      <<"F", "a", "l", "s", "e">>,
      <<"t", "R">>,
      <<"U", "e">>,
      <<"[", Q, "A", Q, ",", Q, "b", Q, "]">>,
      <<"[", Q, "b", Q, ",", "1", "]">>,
      <<"{", Q, "target", Q, ":", Q, "A", Q, "}">>,
      <<"{", Q, "target", Q, ":", "2", "}">>,
      Fenced(<<"{", Q, "bbox_2d", Q, ":", "[", "1", ",", "2", ",", "3", ",", "4", "]", ",",
               Q, "label", Q, ":", Q, "A", Q, ",",
               Q, "description", Q, ":", Q, "b", Q, "}">>) }
MemoChunkSet ==
    { <<"T", "r", "u", "e">>,
      <<"[", Q, "A", Q, "]">> }

\* the texts made of at most n chunks of cs
RECURSIVE Texts(_, _)
Texts(cs, n) ==
    IF n = 0 THEN {<<>>}
    ELSE LET prev == Texts(cs, n - 1) IN
         prev \cup {r \o c : r \in prev, c \in cs}

Responses == Texts(Chunks, MaxChunks)
MemoResponses == Texts(MemoChunkSet, MemoChunks)

(***************************************************************************)
(* request_task, lines 30-186: the prompt and the conversation.            *)
(***************************************************************************)
\* str() of a value interpolated by an f-string; repr() quotes a str.  The
\* text of a dict is abbreviated to one atom.
RECURSIVE Str(_)
RECURSIVE Repr(_)
RECURSIVE ReprAll(_)
Str(value) ==
    IF value.t = "none" THEN <<"N", "o", "n", "e">>
    ELSE IF value.t = "str" THEN value.v
    ELSE IF value.t = "int" THEN
        <<CASE value.v = 1 -> "1" [] value.v = 2 -> "2" [] value.v = 3 -> "3" [] OTHER -> "4">>
    ELSE IF value.t = "bool" THEN
        (IF value.v THEN <<"T", "r", "u", "e">> ELSE <<"F", "a", "l", "s", "e">>)
    ELSE IF value.t = "list" THEN <<"[">> \o ReprAll(value.v) \o <<"]">>
    ELSE <<"{...}">>
Repr(value) ==
    IF value.t = "str" THEN <<"'">> \o value.v \o <<"'">> ELSE Str(value)
ReprAll(xs) ==
    IF xs = <<>> THEN <<>>
    ELSE IF Len(xs) = 1 THEN Repr(xs[1])
    ELSE Repr(xs[1]) \o <<",", " ">> \o ReprAll(Tail(xs))

\* the if/elif chain choosing the prompt; <<>> stands for the else branch
Prompt(t, instr) ==
    IF t = "classify_user_prompt" THEN
        <<"Analyze the following user prompt: ">> \o Str(instr)
            \o <<" ... Return format: True/False: your reasoning ...">>
    ELSE IF t = "decompose_user_prompt" THEN
        <<"For user prompt: ">> \o Str(instr)
            \o <<" ... Expected output format: [...]">>
    ELSE IF t = "generate_instruction" THEN
        <<"Analyze the current desktop layout and select the most suitable object to grasp ...">>
    ELSE IF t = "mark_bounding_box" THEN
        <<"Analyze the image and identify the best matching object with the description: ">>
            \o Str(instr) \o <<". ... Required JSON format ...">>
    ELSE IF t = "check_grasp_success" THEN
        <<"Analyze the image and determine if the robotic arm has successfully grasped an object ...">>
    ELSE IF t = "check_instruction_complete" THEN
        <<"Please check whether ">> \o Str(instr)
            \o <<" exists on the desktop. If it does not exist, output True; otherwise, output False.">>
    ELSE IF t = "check_user_prompt_complete" THEN
        <<"Please analyze the table in the image: ... True / False: ...">>
    ELSE <<>>

\* a chain without its else branch: every name reaches a prompt
KnownTaskAny(t) == TRUE

\* whether the chain reaches a prompt rather than its else branch
KnownTask(t) == t \in TaskNames

SYSTEM_TEXT == <<"You are a helpful assistant.">>

TextPart(text) == [type |-> "text", text |-> text]
ImagePart(url) == [type |-> "image_url", image_url |-> [url |-> url]]

\* `frame_path is not None`
HasFrame(frame) == frame # PyNone

\* the image appended to messages[0] instead of messages[1]
BuildMessagesWrongTurn(prompt, frame) ==
    << [role |-> "system",
        content |-> IF HasFrame(frame)
                    THEN <<TextPart(SYSTEM_TEXT), ImagePart(frame.v)>>
                    ELSE <<TextPart(SYSTEM_TEXT)>>],
       [role |-> "user", content |-> <<TextPart(prompt)>>] >>

BuildMessages(prompt, frame) ==
    << [role |-> "system", content |-> <<TextPart(SYSTEM_TEXT)>>],
       [role |-> "user",
        content |-> IF HasFrame(frame)
                    THEN <<TextPart(prompt), ImagePart(frame.v)>>
                    ELSE <<TextPart(prompt)>>] >>

(***************************************************************************)
(* request_task, lines 283-317: decoding.                                  *)
(***************************************************************************)
Return(value) == [ok |-> TRUE, val |-> value, err |-> NoError]
\* an exception: its class and its message f"{prefix}{arg}{suffix}"
Raise(kind, prefix, arg, suffix) ==
    [ok |-> FALSE, val |-> NoValue,
     err |-> [kind |-> kind, prefix |-> prefix, arg |-> arg, suffix |-> suffix]]

\* the text of an exception's message
Message(err) == <<err.prefix>> \o Str(err.arg) \o <<err.suffix>>

TARGET_KEY == <<"target">>

\* value[key] for a str key
Subscript(value, key) ==
    IF value.t = "dict" THEN
        IF key \in DOMAIN value.v THEN Return(value.v[key])
        ELSE Raise("KeyError", "'", PyStr(key), "'")
    ELSE Raise("TypeError", "indices must be integers, not subscriptable", PyStr(<<>>), "")

\* a classification that falls back to TypeII instead of raising
DecodeClassifyDefault(resp, resp_lower) ==
    IF StrIn(TRUE_WORD, resp_lower) THEN Return(PyStr(<<"TypeI">>))
    ELSE Return(PyStr(<<"TypeII">>))

DecodeClassify(resp, resp_lower) ==
    IF StrIn(TRUE_WORD, resp_lower) THEN Return(PyStr(<<"TypeI">>))
    ELSE IF StrIn(FALSE_WORD, resp_lower) THEN Return(PyStr(<<"TypeII">>))
    ELSE Raise("ValueError", "The output text ", PyStr(resp), " is in the wrong format.")

DecodeDecompose(resp, resp_lower) ==
    LET list_output == extract_list(resp) IN
    IF list_output.t = "list" THEN Return(list_output)
    ELSE Raise("ValueError", "The output text ", list_output, " is not a valid list.")

\* the target returned without the check of its type
DecodeGenerateUnchecked(resp, resp_lower) ==
    LET generate_task_str == parse_json(resp)
        generate_task_json == json_repair_loads(generate_task_str) IN
    IF ~generate_task_json.ok
    THEN Raise("ParseFailure", "json_repair.loads: ", PyStr(generate_task_str), "")
    ELSE Subscript(generate_task_json.val, TARGET_KEY)

DecodeGenerate(resp, resp_lower) ==
    LET generate_task_str == parse_json(resp)
        generate_task_json == json_repair_loads(generate_task_str) IN
    IF ~generate_task_json.ok
    THEN Raise("ParseFailure", "json_repair.loads: ", PyStr(generate_task_str), "")
    ELSE LET generate_task == Subscript(generate_task_json.val, TARGET_KEY) IN
         IF ~generate_task.ok THEN generate_task
         ELSE IF generate_task.val.t = "str" THEN Return(generate_task.val)
         ELSE Raise("ValueError", "The output text ", generate_task.val, " is not a valid string.")

DecodeMark(resp, resp_lower) ==
    LET bbox_str == parse_json(resp)
        bbox_json == json_repair_loads(bbox_str) IN
    IF ~bbox_json.ok THEN Raise("ParseFailure", "json_repair.loads: ", PyStr(bbox_str), "")
    ELSE Return(bbox_json.val)

\* the two tests in the other order
DecodeCheckFalseFirst(resp, resp_lower) ==
    IF StrIn(FALSE_WORD, resp_lower) THEN Return(PyBool(FALSE))
    ELSE IF StrIn(TRUE_WORD, resp_lower) THEN Return(PyBool(TRUE))
    ELSE Raise("ValueError", "The output text ", PyStr(resp), " does not contain a valid boolean value.")

\* the message built from the lower-cased copy
DecodeCheckLowerMessage(resp, resp_lower) ==
    IF StrIn(TRUE_WORD, resp_lower) THEN Return(PyBool(TRUE))
    ELSE IF StrIn(FALSE_WORD, resp_lower) THEN Return(PyBool(FALSE))
    ELSE Raise("ValueError", "The output text ", PyStr(resp_lower), " does not contain a valid boolean value.")

DecodeCheck(resp, resp_lower) ==
    IF StrIn(TRUE_WORD, resp_lower) THEN Return(PyBool(TRUE))
    ELSE IF StrIn(FALSE_WORD, resp_lower) THEN Return(PyBool(FALSE))
    ELSE Raise("ValueError", "The output text ", PyStr(resp), " does not contain a valid boolean value.")

\* a decoder that reads only as many symbols as the token budget
DecodeWithinBudget(t, resp) ==
    LET cut == IF Len(resp) > max_token THEN SubSeq(resp, 1, max_token) ELSE resp
        cut_lower == Lower(cut) IN
    IF t = "classify_user_prompt" THEN DecodeClassify(cut, cut_lower)
    ELSE IF t = "decompose_user_prompt" THEN DecodeDecompose(cut, cut_lower)
    ELSE IF t = "generate_instruction" THEN DecodeGenerate(cut, cut_lower)
    ELSE IF t = "mark_bounding_box" THEN DecodeMark(cut, cut_lower)
    ELSE DecodeCheck(cut, cut_lower)

\* the if/elif chain of lines 286-317
Decode(t, resp) ==
    LET resp_lower == Lower(resp) IN
    IF t = "classify_user_prompt" THEN DecodeClassify(resp, resp_lower)
    ELSE IF t = "decompose_user_prompt" THEN DecodeDecompose(resp, resp_lower)
    ELSE IF t = "generate_instruction" THEN DecodeGenerate(resp, resp_lower)
    ELSE IF t = "mark_bounding_box" THEN DecodeMark(resp, resp_lower)
    ELSE DecodeCheck(resp, resp_lower)

(***************************************************************************)
(* The state machine.                                                      *)
(***************************************************************************)
NoRequest == [model |-> "", max_completion_tokens |-> 0, messages |-> <<>>]
NoMemo == [task |-> "", response |-> <<>>, result |-> NoValue, error |-> NoError]

\* __init__ with the default model_name: self.model is the first served model
Init ==
    /\ self_model = SERVED_MODEL
    /\ pc = "idle"
    /\ task_name = ""
    /\ frame_path = PyNone
    /\ instruction = PyNone
    /\ max_token = DEFAULT_MAX_TOKEN
    /\ messages = <<>>
    /\ request = NoRequest
    /\ creates = 0
    /\ attempts = 0
    /\ response = <<>>
    /\ decodes = 0
    /\ result = NoValue
    /\ error = NoError
    /\ memo = NoMemo

\* lines 24-186: a call enters request_task, which chooses the prompt and
\* builds messages, or raises for a task_name that is none of the seven
RequestTask(t, f, i, m) ==
    /\ pc \in {"idle", "returned", "raised"}
    /\ task_name' = t
    /\ frame_path' = f
    /\ instruction' = i
    /\ max_token' = m
    /\ request' = NoRequest
    /\ creates' = 0
    /\ attempts' = 0
    /\ response' = <<>>
    /\ decodes' = 0
    /\ result' = NoValue
    /\ IF KnownTask(t)
       THEN /\ messages' = BuildMessages(Prompt(t, i), f)
            /\ error' = NoError
            /\ pc' = "built"
       ELSE /\ messages' = <<>>
            /\ error' = Raise("ValueError", "The task_name ", PyStr(<<t>>),
                              " is not a valid task name.").err
            /\ pc' = "raised"
    /\ UNCHANGED self_model

\* lines 277-281: self.client.chat.completions.create(...)
Create ==
    /\ pc = "built"
    /\ request' = [model |-> self_model, max_completion_tokens |-> max_token,
                   messages |-> messages]
    /\ creates' = creates + 1
    /\ attempts' = 1
    /\ pc' = "connecting"
    /\ UNCHANGED <<self_model, task_name, frame_path, instruction, max_token,
                   messages, response, decodes, result, error, memo>>

\* the transport fails to connect: it tries again up to HTTP_RETRIES times,
\* then the failure propagates out of request_task
ConnectFail ==
    /\ pc = "connecting"
    /\ IF attempts <= HTTP_RETRIES
       THEN /\ attempts' = attempts + 1
            /\ UNCHANGED <<pc, error>>
       ELSE /\ pc' = "raised"
            /\ error' = Raise("UpstreamFailure", "connection failed", PyStr(<<>>), "").err
            /\ UNCHANGED attempts
    /\ UNCHANGED <<self_model, task_name, frame_path, instruction, max_token,
                   messages, request, creates, response, decodes, result, memo>>

ConnectOk ==
    /\ pc = "connecting"
    /\ pc' = "waiting"
    /\ UNCHANGED <<self_model, task_name, frame_path, instruction, max_token,
                   messages, request, creates, attempts, response, decodes,
                   result, error, memo>>

\* the completion service fails: create raises, nothing in request_task
\* catches it
ServiceFail ==
    /\ pc = "waiting"
    /\ pc' = "raised"
    /\ error' = Raise("UpstreamFailure", "service error", PyStr(<<>>), "").err
    /\ UNCHANGED <<self_model, task_name, frame_path, instruction, max_token,
                   messages, request, creates, attempts, response, decodes,
                   result, memo>>

\* a decoding failure sends the call back to issue the request again
FinishRetrying(outcome) ==
    IF outcome.ok
    THEN /\ result' = outcome.val
         /\ pc' = "returned"
         /\ UNCHANGED <<error, creates>>
    ELSE /\ error' = outcome.err
         /\ pc' = IF creates < 2 THEN "built" ELSE "raised"
         /\ UNCHANGED <<result, creates>>

\* lines 286-317, the end of the call: return the decoded value or raise
Finish(outcome) ==
    IF outcome.ok
    THEN /\ result' = outcome.val
         /\ pc' = "returned"
         /\ UNCHANGED <<error, creates>>
    ELSE /\ error' = outcome.err
         /\ pc' = "raised"
         /\ UNCHANGED <<result, creates>>

\* lines 283-317: the service answers with text r, which is decoded
Reply(r) ==
    /\ pc = "waiting"
    /\ response' = r
    /\ decodes' = decodes + 1
    /\ Finish(Decode(task_name, r))
    /\ UNCHANGED <<self_model, task_name, frame_path, instruction, max_token,
                   messages, request, attempts, memo>>

Call ==
    \E t \in TaskInputs, f \in FrameInputs, i \in InstructionInputs, m \in MaxTokenInputs :
        RequestTask(t, f, i, m) /\ UNCHANGED memo

\* the next call starts, and an observer keeps the call that just ended
\* after decoding a response
KeepAndCall ==
    \E t \in TaskInputs, f \in FrameInputs, i \in InstructionInputs, m \in MaxTokenInputs :
        /\ decodes = 1
        /\ memo' = [task |-> task_name, response |-> response, result |-> result,
                    error |-> error]
        /\ RequestTask(t, f, i, m)

Answer == \E r \in Responses : Reply(r)

MemoAnswer == \E r \in MemoResponses : Reply(r)

Next == Call \/ Create \/ ConnectFail \/ ConnectOk \/ ServiceFail \/ Answer

Spec == Init /\ [][Next]_vars

MemoNext ==
    Call \/ KeepAndCall \/ Create \/ ConnectFail \/ ConnectOk \/ ServiceFail \/ MemoAnswer

MemoSpec == Init /\ [][MemoNext]_vars

(***************************************************************************)
(* Vocabulary of the properties, stated on the raw text itself.            *)
(***************************************************************************)
BoolTasks == {"classify_user_prompt", "check_grasp_success",
              "check_instruction_complete", "check_user_prompt_complete"}
CheckTasks == BoolTasks \ {"classify_user_prompt"}

\* positions where the word true / false starts, in any letter case
TrueAt(text) ==
    {i \in 1..(Len(text) - 3) :
        /\ text[i] \in {"t", "T"} /\ text[i + 1] \in {"r", "R"}
        /\ text[i + 2] \in {"u", "U"} /\ text[i + 3] \in {"e", "E"}}
FalseAt(text) ==
    {i \in 1..(Len(text) - 4) :
        /\ text[i] \in {"f", "F"} /\ text[i + 1] \in {"a", "A"}
        /\ text[i + 2] \in {"l", "L"} /\ text[i + 3] \in {"s", "S"}
        /\ text[i + 4] \in {"e", "E"}}

TrueOutcome(t) == IF t = "classify_user_prompt" THEN PyStr(<<"TypeI">>) ELSE PyBool(TRUE)
FalseOutcome(t) == IF t = "classify_user_prompt" THEN PyStr(<<"TypeII">>) ELSE PyBool(FALSE)

\* the call has ended after decoding a response
Decoded == pc \in {"returned", "raised"} /\ decodes = 1

\* C1: in the four boolean-decoded kinds a response holding "true" (any
\* case, anywhere, before or after a "false") gives the true outcome, and
\* the false outcome is returned only when "false" occurs and "true" does not.
C1_TruePrecedence ==
    (Decoded /\ task_name \in BoolTasks) =>
        /\ TrueAt(response) # {} =>
               pc = "returned" /\ result = TrueOutcome(task_name)
        /\ (pc = "returned" /\ result = FalseOutcome(task_name)) =>
               FalseAt(response) # {} /\ TrueAt(response) = {}

\* a check whose response holds "false" before "true" returned True
C1_Witness ==
    /\ Decoded /\ task_name \in CheckTasks
    /\ \E i \in FalseAt(response) : \E j \in TrueAt(response) : i < j
    /\ pc = "returned" /\ result = PyBool(TRUE)

\* C2: in the four boolean-decoded kinds a response holding neither "true"
\* nor "false" ends the call with the ValueError of the boolean branch; no
\* value is returned.
C2_NeitherRaises ==
    (Decoded /\ task_name \in BoolTasks /\ TrueAt(response) = {} /\ FalseAt(response) = {}) =>
        /\ pc = "raised"
        /\ result = NoValue
        /\ error.kind = "ValueError"
        /\ error.suffix = IF task_name = "classify_user_prompt"
                          THEN " is in the wrong format."
                          ELSE " does not contain a valid boolean value."

\* a classification of a non-empty response without either word raised
C2_Witness ==
    /\ Decoded /\ task_name = "classify_user_prompt"
    /\ response # <<>> /\ TrueAt(response) = {} /\ FalseAt(response) = {}
    /\ pc = "raised"

IsStrList(value) ==
    value.t = "list" /\ \A k \in 1..Len(value.v) : value.v[k].t = "str"

\* C3: DecomposeUserPrompt raises the list ValueError whenever the extracted
\* value is not a list of strings, and otherwise returns the extracted list.
C3_ListOfStrings ==
    (Decoded /\ task_name = "decompose_user_prompt") =>
        LET extracted == extract_list(response) IN
        IF IsStrList(extracted)
        THEN pc = "returned" /\ result = extracted
        ELSE /\ pc = "raised"
             /\ error.kind = "ValueError"
             /\ error.suffix = " is not a valid list."

\* C4: GenerateInstruction, once the response is parsed, returns a string
\* target and raises the same ValueError kind when target is not a string,
\* is absent, or the parsed value is no object.
C4_TargetField ==
    LET parsed == json_repair_loads(parse_json(response)) IN
    (Decoded /\ task_name = "generate_instruction" /\ parsed.ok) =>
        IF /\ parsed.val.t = "dict"
           /\ TARGET_KEY \in DOMAIN parsed.val.v
           /\ parsed.val.v[TARGET_KEY].t = "str"
        THEN pc = "returned" /\ result = parsed.val.v[TARGET_KEY]
        ELSE pc = "raised" /\ error.kind = "ValueError"

IsInt(value) == value.t = "int"

\* a record with a four-number bounding box, a label and a description
IsBoxRecord(value) ==
    /\ value.t = "dict"
    /\ DOMAIN value.v = {<<"bbox_2d">>, <<"label">>, <<"description">>}
    /\ value.v[<<"bbox_2d">>].t = "list"
    /\ Len(value.v[<<"bbox_2d">>].v) = 4
    /\ \A k \in 1..4 : IsInt(value.v[<<"bbox_2d">>].v[k])
    /\ value.v[<<"label">>].t = "str"
    /\ value.v[<<"description">>].t = "str"

\* C5 as stated: every returned value has the one shape of its task kind,
\* a list of strings for DecomposeUserPrompt and a bounding-box record for
\* MarkBoundingBox included.
C5_FixedShapes ==
    pc = "returned" =>
        CASE task_name = "classify_user_prompt" ->
                 result = PyStr(<<"TypeI">>) \/ result = PyStr(<<"TypeII">>)
          [] task_name = "decompose_user_prompt" -> IsStrList(result)
          [] task_name = "generate_instruction" -> result.t = "str"
          [] task_name = "mark_bounding_box" -> IsBoxRecord(result)
          [] OTHER -> result.t = "bool"

\* C5, amended: the label, the string and the booleans are as stated;
\* DecomposeUserPrompt returns a list whatever its elements, and
\* MarkBoundingBox returns the parsed value whatever its shape.
C5_ShapesAsDecoded ==
    pc = "returned" =>
        CASE task_name = "classify_user_prompt" ->
                 result = PyStr(<<"TypeI">>) \/ result = PyStr(<<"TypeII">>)
          [] task_name = "decompose_user_prompt" -> result.t = "list"
          [] task_name = "generate_instruction" -> result.t = "str"
          [] task_name = "mark_bounding_box" ->
                 /\ result.t \in {"dict", "list", "str", "int"}
                 /\ result = json_repair_loads(parse_json(response)).val
          [] OTHER -> result.t = "bool"

\* MarkBoundingBox returned a list
C5_Witness ==
    pc = "returned" /\ task_name = "mark_bounding_box" /\ result.t = "list"

\* C6: a call whose task_name is none of the seven ends with the ValueError
\* of the else branch, whatever the other arguments, with no conversation
\* built, no completion request issued and no decoding run.
C6_UnknownTaskKind ==
    (pc # "idle" /\ task_name \notin TaskNames) =>
        /\ pc = "raised"
        /\ error.kind = "ValueError"
        /\ error.suffix = " is not a valid task name."
        /\ error.arg = PyStr(<<task_name>>)
        /\ messages = <<>>
        /\ request = NoRequest
        /\ creates = 0
        /\ attempts = 0
        /\ decodes = 0
        /\ response = <<>>
        /\ result = NoValue

\* an unknown task_name with a frame, an instruction and a small budget
C6_Witness ==
    /\ pc = "raised" /\ task_name \notin TaskNames
    /\ frame_path # PyNone /\ instruction # PyNone /\ max_token # DEFAULT_MAX_TOKEN

\* C7: within one call the conversation is built, then the request is
\* issued, then the response is decoded; the request is issued and the
\* decoding run at most once, and a call that ended is followed only by a
\* new call.
C7_OrderNoRetry ==
    /\ [](/\ creates <= 1
          /\ decodes <= 1
          /\ (creates = 1 => messages # <<>> /\ request.messages = messages)
          /\ (decodes = 1 => creates = 1)
          /\ (pc \in {"connecting", "waiting"} => creates = 1 /\ decodes = 0)
          /\ (pc = "built" => creates = 0 /\ decodes = 0))
    /\ [][/\ (creates' # creates => (pc = "built" /\ creates' = 1) \/ creates' = 0)
          /\ (decodes' # decodes => (pc = "waiting" /\ decodes' = 1) \/ decodes' = 0)
          /\ (pc \in {"returned", "raised"} =>
                  pc' \in {"built", "raised"} /\ creates' = 0 /\ decodes' = 0)]_vars

\* a call ended by a decoding failure after the transport connected on its
\* second attempt: one request, one decoding
C7_Witness ==
    /\ pc = "raised" /\ error.kind = "ValueError"
    /\ creates = 1 /\ decodes = 1 /\ attempts = HTTP_RETRIES + 1

DecodingValueError == Decoded /\ pc = "raised" /\ error.kind = "ValueError"

\* C8 as stated: every decoding failure carries the task kind and the raw
\* response text.
C8_CarriesKindAndText ==
    DecodingValueError =>
        /\ StrIn(response, Message(error))
        /\ StrIn(<<task_name>>, Message(error))

\* C8, amended: a decoding failure ends the call at once with no value; the
\* boolean failures carry the raw response text, the list failure carries
\* the extracted value (which is no list), the field failure carries the
\* target value (which is no string); none carries the task kind.
C8_FailureContext ==
    /\ (Decoded /\ pc = "raised") => result = NoValue /\ error.kind # "none"
    /\ (Decoded /\ pc = "returned") => result # NoValue /\ error = NoError
    /\ DecodingValueError =>
        /\ ~StrIn(<<task_name>>, Message(error))
        /\ task_name \in BoolTasks =>
               /\ Message(error)[1] = "The output text "
               /\ SubSeq(Message(error), 2, Len(response) + 1) = response
               /\ Len(Message(error)) = Len(response) + 2
        /\ task_name = "decompose_user_prompt" =>
               /\ error.arg = extract_list(response)
               /\ error.arg.t # "list"
               /\ error.suffix = " is not a valid list."
        /\ task_name = "generate_instruction" =>
               LET parsed == json_repair_loads(parse_json(response)).val IN
               /\ error.arg = parsed.v[TARGET_KEY]
               /\ error.arg.t # "str"
               /\ error.suffix = " is not a valid string."

\* a list failure whose message does not hold the raw response
C8_Witness ==
    /\ DecodingValueError
    /\ task_name = "decompose_user_prompt"
    /\ response # <<>>
    /\ ~StrIn(response, Message(error))

\* C9: the built conversation is the system turn with the fixed text, then
\* the user turn with a non-empty text, and the user turn carries the image
\* exactly when frame_path was given, with frame_path as its url.
C9_Conversation ==
    /\ (pc # "idle" /\ task_name \in TaskNames) => messages # <<>>
    /\ messages # <<>> =>
        /\ Len(messages) = 2
        /\ messages[1].role = "system"
        /\ messages[1].content = <<[type |-> "text", text |-> <<"You are a helpful assistant.">>]>>
        /\ messages[2].role = "user"
        /\ messages[2].content[1].type = "text"
        /\ messages[2].content[1].text # <<>>
        /\ IF frame_path = PyNone
           THEN Len(messages[2].content) = 1
           ELSE /\ Len(messages[2].content) = 2
                /\ messages[2].content[2] =
                       [type |-> "image_url", image_url |-> [url |-> frame_path.v]]

\* a conversation with an image and no instruction
C9_Witness ==
    /\ pc = "built" /\ frame_path # PyNone /\ instruction = PyNone
    /\ Len(messages[2].content) = 2

====
